---- MODULE Spec2Model ----
(***************************************************************************)
(* Three linked lists of the `lists` crate:                                *)
(*   linkedlist.rs  LinkedList<T>  doubly linked deque on raw pointers     *)
(*   second.rs      List<T>        singly linked stack of Box<Node<T>>     *)
(*   third.rs       List<T>        persistent list of Rc<Node<T>>          *)
(* Each container has its own heap of node addresses.  Box::new / Rc::new  *)
(* may return any address that is not occupied at that moment.             *)
(***************************************************************************)
EXTENDS Integers, Sequences, FiniteSets, Bags, TLC

\* ---------------------------------------------------------------- bounds
MaxNodes == 3
MaxVal == 2
MaxLists == 3

Addr == 1..MaxNodes
Values == 1..MaxVal

\* ---------------------------------------------------------------- Option<T>
None == <<>>
Some(x) == <<x>>

VARIABLES
    \* linkedlist.rs
    ll_front, ll_back, ll_len, ll_heap, ll_frees, ll_pushed, ll_state, ll_op, ll_ret,
    \* second.rs
    st_head, st_heap, st_pushed, st_op, st_ret,
    \* second.rs: what holds the List, and the Iter / IterMut on it
    st_mode, st_next, st_yielded,
    \* third.rs
    rc_heap, rc_lists, rc_iter_mut, rc_op, rc_ret,
    \* third.rs: the Iter, and whether a node has ever had two holders
    rc_iter, rc_shared

ll_vars == <<ll_front, ll_back, ll_len, ll_heap, ll_frees, ll_pushed, ll_state, ll_op, ll_ret>>
st_vars == <<st_head, st_heap, st_pushed, st_op, st_ret>>
sx_vars == <<st_mode, st_next, st_yielded>>
rc_vars == <<rc_heap, rc_lists, rc_iter_mut, rc_op, rc_ret>>
rx_vars == <<rc_iter, rc_shared>>
vars == <<ll_vars, st_vars, sx_vars, rc_vars, rx_vars>>

(***************************************************************************)
(* linkedlist.rs : LinkedList<T>                                           *)
(***************************************************************************)
\* a heap cell that holds no Node
ll_NoNode == [live |-> FALSE, front |-> None, back |-> None, elem |-> 0]

\* Box::new(Node { front: None, back: None, elem })
ll_NewNode(elem) == [live |-> TRUE, front |-> None, back |-> None, elem |-> elem]

\* LinkedList::new(); ll_pushed is the history of the calls: the pushed
\* elements that no pop_front has returned yet, oldest first, each with its node
ll_Init ==
    /\ ll_front = None
    /\ ll_back = None
    /\ ll_len = 0
    /\ ll_heap = [a \in Addr |-> ll_NoNode]
    /\ ll_frees = [a \in Addr |-> 0]
    /\ ll_pushed = <<>>
    /\ ll_state = "live"
    /\ ll_op = "new"
    /\ ll_ret = None

\* ll_pushed without the entry of node a
ll_Forget(a) == SelectSeq(ll_pushed, LAMBDA e : e.node # a)

\* push_front without the old front's link to the new node
PushFrontNoFrontLink(elem, new) ==
    /\ ll_state = "live"
    /\ ~ll_heap[new].live
    /\ LET heap1 == [ll_heap EXCEPT ![new] = ll_NewNode(elem)]
       IN  IF ll_front # None
           THEN LET old == ll_front[1]
                IN  /\ ll_heap' = [heap1 EXCEPT ![new].back = Some(old)]
                    /\ ll_back' = ll_back
           ELSE /\ ll_heap' = heap1
                /\ ll_back' = Some(new)
    /\ ll_front' = Some(new)
    /\ ll_len' = ll_len + 1
    /\ ll_frees' = [ll_frees EXCEPT ![new] = 0]
    /\ ll_pushed' = Append(ll_pushed, [node |-> new, elem |-> elem])
    /\ ll_op' = "push_front"
    /\ ll_ret' = None
    /\ UNCHANGED ll_state

\* LinkedList::push_front(elem); new is the address Box::new returns
PushFront(elem, new) ==
    /\ ll_state = "live"
    /\ ~ll_heap[new].live
    /\ LET heap1 == [ll_heap EXCEPT ![new] = ll_NewNode(elem)]
       IN  IF ll_front # None
           THEN LET old == ll_front[1]
                IN  /\ ll_heap' = [heap1 EXCEPT ![old].front = Some(new),
                                                ![new].back = Some(old)]
                    /\ ll_back' = ll_back
           ELSE /\ ll_heap' = heap1
                /\ ll_back' = Some(new)
    /\ ll_front' = Some(new)
    /\ ll_len' = ll_len + 1
    /\ ll_frees' = [ll_frees EXCEPT ![new] = 0]
    /\ ll_pushed' = Append(ll_pushed, [node |-> new, elem |-> elem])
    /\ ll_op' = "push_front"
    /\ ll_ret' = None
    /\ UNCHANGED ll_state

\* pop_front that takes the node at the back instead of the one at the front
PopFrontTakesBack ==
    /\ ll_state = "live"
    /\ IF ll_back = None
       THEN /\ ll_ret' = None
            /\ UNCHANGED <<ll_front, ll_back, ll_len, ll_heap, ll_frees, ll_pushed>>
       ELSE LET node == ll_back[1]
                boxed_node == ll_heap[node]
                result == boxed_node.elem
                heap1 == IF boxed_node.front # None
                         THEN [ll_heap EXCEPT ![boxed_node.front[1]].back = None]
                         ELSE ll_heap
            IN  /\ ll_back' = boxed_node.front
                /\ ll_front' = IF boxed_node.front # None THEN ll_front ELSE None
                /\ ll_len' = ll_len - 1
                /\ ll_heap' = [heap1 EXCEPT ![node] = ll_NoNode]
                /\ ll_frees' = [ll_frees EXCEPT ![node] = @ + 1]
                /\ ll_pushed' = ll_Forget(node)
                /\ ll_ret' = Some(result)
    /\ ll_op' = "pop_front"
    /\ UNCHANGED ll_state

\* pop_front that leaves self.back in place when the last node goes
PopFrontKeepsBack ==
    /\ ll_state = "live"
    /\ IF ll_front = None
       THEN /\ ll_ret' = None
            /\ UNCHANGED <<ll_front, ll_back, ll_len, ll_heap, ll_frees, ll_pushed>>
       ELSE LET node == ll_front[1]
                boxed_node == ll_heap[node]
                result == boxed_node.elem
                heap1 == IF boxed_node.back # None
                         THEN [ll_heap EXCEPT ![boxed_node.back[1]].front = None]
                         ELSE ll_heap
            IN  /\ ll_front' = boxed_node.back
                /\ ll_back' = ll_back
                /\ ll_len' = ll_len - 1
                /\ ll_heap' = [heap1 EXCEPT ![node] = ll_NoNode]
                /\ ll_frees' = [ll_frees EXCEPT ![node] = @ + 1]
                /\ ll_pushed' = ll_Forget(node)
                /\ ll_ret' = Some(result)
    /\ ll_op' = "pop_front"
    /\ UNCHANGED ll_state

\* pop_front with self.len -= 1 after the closure instead of inside it
PopFrontLenOutside ==
    /\ ll_state = "live"
    /\ IF ll_front = None
       THEN /\ ll_ret' = None
            /\ UNCHANGED <<ll_front, ll_back, ll_heap, ll_frees, ll_pushed>>
       ELSE LET node == ll_front[1]
                boxed_node == ll_heap[node]
                result == boxed_node.elem
                heap1 == IF boxed_node.back # None
                         THEN [ll_heap EXCEPT ![boxed_node.back[1]].front = None]
                         ELSE ll_heap
            IN  /\ ll_front' = boxed_node.back
                /\ ll_back' = IF boxed_node.back # None THEN ll_back ELSE None
                /\ ll_heap' = [heap1 EXCEPT ![node] = ll_NoNode]
                /\ ll_frees' = [ll_frees EXCEPT ![node] = @ + 1]
                /\ ll_pushed' = ll_Forget(node)
                /\ ll_ret' = Some(result)
    /\ ll_len' = ll_len - 1
    /\ ll_op' = "pop_front"
    /\ UNCHANGED ll_state

\* pop_front that forgets self.len -= 1
PopFrontNoLen ==
    /\ ll_state = "live"
    /\ IF ll_front = None
       THEN /\ ll_ret' = None
            /\ UNCHANGED <<ll_front, ll_back, ll_len, ll_heap, ll_frees, ll_pushed>>
       ELSE LET node == ll_front[1]
                boxed_node == ll_heap[node]
                result == boxed_node.elem
                heap1 == IF boxed_node.back # None
                         THEN [ll_heap EXCEPT ![boxed_node.back[1]].front = None]
                         ELSE ll_heap
            IN  /\ ll_front' = boxed_node.back
                /\ ll_back' = IF boxed_node.back # None THEN ll_back ELSE None
                /\ ll_len' = ll_len
                /\ ll_heap' = [heap1 EXCEPT ![node] = ll_NoNode]
                /\ ll_frees' = [ll_frees EXCEPT ![node] = @ + 1]
                /\ ll_pushed' = ll_Forget(node)
                /\ ll_ret' = Some(result)
    /\ ll_op' = "pop_front"
    /\ UNCHANGED ll_state

\* LinkedList::pop_front(); the Box made by Box::from_raw is released when
\* the closure returns
PopFront ==
    /\ ll_state = "live"
    /\ IF ll_front = None
       THEN /\ ll_ret' = None
            /\ UNCHANGED <<ll_front, ll_back, ll_len, ll_heap, ll_frees, ll_pushed>>
       ELSE LET node == ll_front[1]
                boxed_node == ll_heap[node]
                result == boxed_node.elem
                heap1 == IF boxed_node.back # None
                         THEN [ll_heap EXCEPT ![boxed_node.back[1]].front = None]
                         ELSE ll_heap
            IN  /\ ll_front' = boxed_node.back
                /\ ll_back' = IF boxed_node.back # None THEN ll_back ELSE None
                /\ ll_len' = ll_len - 1
                /\ ll_heap' = [heap1 EXCEPT ![node] = ll_NoNode]
                /\ ll_frees' = [ll_frees EXCEPT ![node] = @ + 1]
                /\ ll_pushed' = ll_Forget(node)
                /\ ll_ret' = Some(result)
    /\ ll_op' = "pop_front"
    /\ UNCHANGED ll_state

\* LinkedList has no Drop impl: dropping it drops three plain fields and
\* releases no node
LinkedListDrop ==
    /\ ll_state = "live"
    /\ ll_state' = "dropped"
    /\ ll_op' = "drop"
    /\ ll_ret' = None
    /\ UNCHANGED <<ll_front, ll_back, ll_len, ll_heap, ll_frees, ll_pushed>>

\* LinkedList::len()
LinkedListLen == ll_len

\* the addresses reached from link by following the back-ward links, in order
RECURSIVE ll_Walk(_, _)
ll_Walk(link, fuel) ==
    IF link = None \/ fuel = 0 THEN <<>>
    ELSE <<link[1]>> \o ll_Walk(ll_heap[link[1]].back, fuel - 1)

ll_Chain == ll_Walk(ll_front, MaxNodes + 1)
ll_Live == {a \in Addr : ll_heap[a].live}

(***************************************************************************)
(* second.rs : List<T>  (first.rs is the same list with elem: i32)         *)
(***************************************************************************)
\* a heap cell that holds no Node
st_NoNode == [live |-> FALSE, elem |-> 0, next |-> None]

\* List::new(); st_pushed is the history of the calls: the pushed elements
\* that no pop has returned yet, oldest first, each with its node
st_Init ==
    /\ st_head = None
    /\ st_heap = [a \in Addr |-> st_NoNode]
    /\ st_pushed = <<>>
    /\ st_op = "new"
    /\ st_ret = None

\* st_pushed without the entry of node a
st_Forget(a) == SelectSeq(st_pushed, LAMBDA e : e.node # a)

\* push that links the new node behind the head instead of before it
PushBehindHead(elem, new) ==
    /\ ~st_heap[new].live
    /\ IF st_head = None
       THEN /\ st_heap' = [st_heap EXCEPT ![new] = [live |-> TRUE, elem |-> elem, next |-> None]]
            /\ st_head' = Some(new)
       ELSE /\ st_heap' = [st_heap EXCEPT
                              ![new] = [live |-> TRUE, elem |-> elem,
                                        next |-> st_heap[st_head[1]].next],
                              ![st_head[1]].next = Some(new)]
            /\ st_head' = st_head
    /\ st_pushed' = Append(st_pushed, [node |-> new, elem |-> elem])
    /\ st_op' = "push"
    /\ st_ret' = None

\* List::push(elem); new is the address Box::new returns
Push(elem, new) ==
    /\ ~st_heap[new].live
    /\ LET new_node == [live |-> TRUE, elem |-> elem, next |-> st_head]
       IN  st_heap' = [st_heap EXCEPT ![new] = new_node]
    /\ st_head' = Some(new)
    /\ st_pushed' = Append(st_pushed, [node |-> new, elem |-> elem])
    /\ st_op' = "push"
    /\ st_ret' = None

\* List::pop(): head.take(), then the closure moves next and elem out of the
\* Box, which is released
Pop ==
    /\ IF st_head = None
       THEN /\ st_ret' = None
            /\ UNCHANGED <<st_head, st_heap, st_pushed>>
       ELSE LET node == st_head[1]
            IN  /\ st_head' = st_heap[node].next
                /\ st_ret' = Some(st_heap[node].elem)
                /\ st_heap' = [st_heap EXCEPT ![node] = st_NoNode]
                /\ st_pushed' = st_Forget(node)
    /\ st_op' = "pop"

\* the elements reached from link by following next, in order
RECURSIVE st_Elems(_, _)
st_Elems(link, fuel) ==
    IF link = None \/ fuel = 0 THEN <<>>
    ELSE <<st_heap[link[1]].elem>> \o st_Elems(st_heap[link[1]].next, fuel - 1)

st_List == st_Elems(st_head, MaxNodes + 1)

\* the nodes reached from link by following next, in order
RECURSIVE st_Nodes(_, _)
st_Nodes(link, fuel) ==
    IF link = None \/ fuel = 0 THEN <<>>
    ELSE <<link[1]>> \o st_Nodes(st_heap[link[1]].next, fuel - 1)

st_Chain == st_Nodes(st_head, MaxNodes + 1)
st_Live == {a \in Addr : st_heap[a].live}

\* the program holds the List itself ("list"), an IntoIter made of it
\* ("into_iter"), or an Iter ("iter") or IterMut ("iter_mut") that borrows it,
\* or has dropped the List ("dropped") or the IntoIter ("dropped_iter");
\* st_next is the next field of the Iter or
\* IterMut, st_yielded the nodes whose elem it has yielded, in order
sx_Init ==
    /\ st_mode = "list"
    /\ st_next = None
    /\ st_yielded = <<>>

\* st_pushed with the element of node a replaced by v
st_Rewrite(a, v) ==
    [i \in 1..Len(st_pushed) |->
        IF st_pushed[i].node = a THEN [st_pushed[i] EXCEPT !.elem = v] ELSE st_pushed[i]]

\* peek that looks at the node after the head
peekSecond(heap, link) ==
    IF link = None \/ heap[link[1]].next = None THEN None
    ELSE Some(heap[heap[link[1]].next[1]].elem)

\* what List::peek() returns, and what the &mut of List::peek_mut() points at
peek(heap, link) == IF link = None THEN None ELSE Some(heap[link[1]].elem)

\* List::peek()
Peek ==
    /\ st_mode = "list"
    /\ st_ret' = peek(st_heap, st_head)
    /\ st_op' = "peek"
    /\ UNCHANGED <<st_head, st_heap, st_pushed>>

\* list.peek_mut().map(|value| *value = v)
PeekMutWrite(v) ==
    /\ st_mode = "list"
    /\ st_ret' = peek(st_heap, st_head)
    /\ IF st_head = None
       THEN UNCHANGED <<st_heap, st_pushed>>
       ELSE /\ st_heap' = [st_heap EXCEPT ![st_head[1]].elem = v]
            /\ st_pushed' = st_Rewrite(st_head[1], v)
    /\ st_op' = "peek_mut"
    /\ UNCHANGED st_head

\* List::iter_mut()
StIterMut ==
    /\ st_mode = "list"
    /\ st_mode' = "iter_mut"
    /\ st_next' = st_head
    /\ st_yielded' = <<>>
    /\ st_op' = "iter_mut"
    /\ st_ret' = None
    /\ UNCHANGED <<st_head, st_heap, st_pushed>>

\* IterMut::next() that leaves self.next where it is
StIterMutNextStays ==
    /\ st_mode = "iter_mut"
    /\ IF st_next = None
       THEN /\ st_ret' = None
            /\ UNCHANGED <<st_next, st_yielded>>
       ELSE LET node == st_next[1]
            IN  /\ st_next' = st_next
                /\ st_yielded' = Append(st_yielded, node)
                /\ st_ret' = Some(st_heap[node].elem)
    /\ st_op' = "next_mut"
    /\ UNCHANGED <<st_head, st_heap, st_pushed, st_mode>>

\* IterMut::next()
StIterMutNext ==
    /\ st_mode = "iter_mut"
    /\ IF st_next = None
       THEN /\ st_ret' = None
            /\ UNCHANGED <<st_next, st_yielded>>
       ELSE LET node == st_next[1]
            IN  /\ st_next' = st_heap[node].next
                /\ st_yielded' = Append(st_yielded, node)
                /\ st_ret' = Some(st_heap[node].elem)
    /\ st_op' = "next_mut"
    /\ UNCHANGED <<st_head, st_heap, st_pushed, st_mode>>

\* *r = v through the i-th &mut elem that the IterMut yielded
StWrite(i, v) ==
    /\ st_mode = "iter_mut"
    /\ i \in 1..Len(st_yielded)
    /\ st_heap[st_yielded[i]].elem # v
    /\ st_heap' = [st_heap EXCEPT ![st_yielded[i]].elem = v]
    /\ st_pushed' = st_Rewrite(st_yielded[i], v)
    /\ st_op' = "write"
    /\ st_ret' = None
    /\ UNCHANGED <<st_head, sx_vars>>

\* List::iter()
StIter ==
    /\ st_mode = "list"
    /\ st_mode' = "iter"
    /\ st_next' = st_head
    /\ st_yielded' = <<>>
    /\ st_op' = "iter"
    /\ st_ret' = None
    /\ UNCHANGED <<st_head, st_heap, st_pushed>>

\* Iter::next()
StIterNext ==
    /\ st_mode = "iter"
    /\ IF st_next = None
       THEN /\ st_ret' = None
            /\ UNCHANGED <<st_next, st_yielded>>
       ELSE LET node == st_next[1]
            IN  /\ st_next' = st_heap[node].next
                /\ st_yielded' = Append(st_yielded, node)
                /\ st_ret' = Some(st_heap[node].elem)
    /\ st_op' = "next_ref"
    /\ UNCHANGED <<st_head, st_heap, st_pushed, st_mode>>

\* the Iter or IterMut and the borrows it yielded go out of scope
StIterEnd ==
    /\ st_mode \in {"iter", "iter_mut"}
    /\ st_mode' = "list"
    /\ st_next' = None
    /\ st_yielded' = <<>>
    /\ st_op' = "end"
    /\ st_ret' = None
    /\ UNCHANGED <<st_head, st_heap, st_pushed>>

\* List::into_iter(self)
StIntoIter ==
    /\ st_mode = "list"
    /\ st_mode' = "into_iter"
    /\ st_op' = "into_iter"
    /\ st_ret' = None
    /\ UNCHANGED <<st_head, st_heap, st_pushed, st_next, st_yielded>>

\* IntoIter::next() that returns the head element and leaves it in the list
StIntoIterNextPeeks ==
    /\ st_mode = "into_iter"
    /\ st_ret' = peek(st_heap, st_head)
    /\ st_op' = "pop"
    /\ UNCHANGED <<st_head, st_heap, st_pushed, sx_vars>>

\* IntoIter::next(): self.0.pop()
StIntoIterNext ==
    /\ st_mode = "into_iter"
    /\ Pop
    /\ UNCHANGED sx_vars

\* the drop glue of a Link: a Box<Node> drops its Node, and so the Node's
\* next, before it is released; depth is how deep the Node drops nest, freed
\* the nodes in the order of their release
RECURSIVE box_drop(_, _)
box_drop(heap, link) ==
    IF link = None \/ ~heap[link[1]].live
    THEN [heap |-> heap, depth |-> 0, freed |-> <<>>]
    ELSE LET inner == box_drop(heap, heap[link[1]].next)
         IN  [heap |-> [inner.heap EXCEPT ![link[1]] = st_NoNode],
              depth |-> 1 + inner.depth,
              freed |-> Append(inner.freed, link[1])]

Max(a, b) == IF a >= b THEN a ELSE b

\* the while loop of List::drop that leaves next in the node it drops
RECURSIVE list_drop_loopNoTake(_, _)
list_drop_loopNoTake(heap, cur_link) ==
    IF cur_link = None \/ ~heap[cur_link[1]].live
    THEN [heap |-> heap, iters |-> 0, depth |-> 0, freed |-> <<>>]
    ELSE LET boxed_node == cur_link[1]
             next_link == heap[boxed_node].next
             d == box_drop(heap, Some(boxed_node))
             rest == list_drop_loopNoTake(d.heap, next_link)
         IN  [heap |-> rest.heap,
              iters |-> 1 + rest.iters,
              depth |-> Max(d.depth, rest.depth),
              freed |-> d.freed \o rest.freed]

\* the while loop of List::drop from cur_link on: the heap it leaves, the
\* iterations it makes, the deepest nesting of Node drops and the nodes it
\* releases, in order
RECURSIVE list_drop_loop(_, _)
list_drop_loop(heap, cur_link) ==
    IF cur_link = None \/ ~heap[cur_link[1]].live
    THEN [heap |-> heap, iters |-> 0, depth |-> 0, freed |-> <<>>]
    ELSE LET boxed_node == cur_link[1]
             next_link == heap[boxed_node].next
             taken == [heap EXCEPT ![boxed_node].next = None]
             d == box_drop(taken, Some(boxed_node))
             rest == list_drop_loop(d.heap, next_link)
         IN  [heap |-> rest.heap,
              iters |-> 1 + rest.iters,
              depth |-> Max(d.depth, rest.depth),
              freed |-> d.freed \o rest.freed]

\* the stack is empty again: pop has returned None
st_Done == st_mode = "list" /\ st_op = "pop" /\ st_ret = None /\ st_head = None

\* drop of the List, or of the IntoIter and so of the List in it
StDrop ==
    /\ st_mode \in {"list", "into_iter"}
    /\ st_mode' = IF st_mode = "list" THEN "dropped" ELSE "dropped_iter"
    /\ st_heap' = list_drop_loop(st_heap, st_head).heap
    /\ st_head' = None
    /\ st_op' = "drop"
    /\ UNCHANGED <<st_ret, st_pushed, st_next, st_yielded>>
(***************************************************************************)
(* third.rs : List<T>                                                      *)
(***************************************************************************)
\* T is opaque to the list: two distinguishable elements
rc_Values == {1, 2}

\* a heap cell that holds no Node; strong is the Rc's share count
rc_NoNode == [live |-> FALSE, elem |-> 0, next |-> None, strong |-> 0]

\* List::new() has not been called yet.  rc_lists is the bag of the List
\* ("list") and IntoIter ("into_iter") values the program holds, each with
\* the head of its List; rc_iter_mut is the IterMut, if one exists, with the
\* List it borrows
rc_Init ==
    /\ rc_heap = [a \in Addr |-> rc_NoNode]
    /\ rc_lists = EmptyBag
    /\ rc_iter_mut = None
    /\ rc_op = "new"
    /\ rc_ret = None

\* the bag of one value
One(h) == SetToBag({h})

\* a List with this head
List(link) == [kind |-> "list", head |-> link]

\* the number of List and IntoIter values the program holds
rc_Count == BagCardinality(rc_lists) + (IF rc_iter_mut = None THEN 0 ELSE 1)

\* a copy of a Link that does not count the new holder
rc_cloneNoCount(heap, link) == heap

\* Rc::clone of a Link
rc_clone(heap, link) ==
    IF link = None THEN heap ELSE [heap EXCEPT ![link[1]].strong = @ + 1]

\* drop of a Link that leaves the share count of a shared Node as it is
RECURSIVE rc_dropKeepsCount(_, _)
rc_dropKeepsCount(heap, link) ==
    IF link = None THEN heap
    ELSE IF heap[link[1]].strong > 1
         THEN heap
         ELSE rc_dropKeepsCount([heap EXCEPT ![link[1]] = rc_NoNode], heap[link[1]].next)

\* drop of a Link: the share count goes down, and the Node (with its next
\* Link) is dropped when it reaches zero
RECURSIVE rc_drop(_, _)
rc_drop(heap, link) ==
    IF link = None THEN heap
    ELSE IF heap[link[1]].strong > 1
         THEN [heap EXCEPT ![link[1]].strong = @ - 1]
         ELSE rc_drop([heap EXCEPT ![link[1]] = rc_NoNode], heap[link[1]].next)

\* Rc::try_unwrap(rc).is_ok() and Rc::get_mut(rc).is_some()
rc_unique(heap, a) == heap[a].strong = 1

\* l is a List of the program that no IterMut borrows
rc_usable(l) == BagIn(l, rc_lists) /\ l.kind = "list"

\* List::new()
ListNew ==
    /\ rc_Count < MaxLists
    /\ rc_lists' = rc_lists (+) One(List(None))
    /\ rc_op' = "list_new"
    /\ rc_ret' = None
    /\ UNCHANGED <<rc_heap, rc_iter_mut>>

\* prepend that copies the head Link without Rc::clone
prependNoClone(heap, head, elem, new) ==
    [heap |-> [heap EXCEPT
                  ![new] = [live |-> TRUE, elem |-> elem, next |-> head, strong |-> 1]],
     head |-> Some(new)]

\* the heap and the head of the List that prepend(elem) returns; new is the
\* address Rc::new returns
prepend(heap, head, elem, new) ==
    [heap |-> [rc_clone(heap, head) EXCEPT
                  ![new] = [live |-> TRUE, elem |-> elem, next |-> head, strong |-> 1]],
     head |-> Some(new)]

\* List::prepend(&self, elem) on the List l
ListPrepend(l, elem, new) ==
    /\ rc_usable(l)
    /\ rc_Count < MaxLists
    /\ ~rc_heap[new].live
    /\ LET r == prepend(rc_heap, l.head, elem, new)
       IN  /\ rc_heap' = r.heap
           /\ rc_lists' = rc_lists (+) One(List(r.head))
    /\ rc_op' = "prepend"
    /\ rc_ret' = None
    /\ UNCHANGED rc_iter_mut

\* tail that clones the head instead of the head's next
tailOfHead(heap, head) == [heap |-> rc_clone(heap, head), head |-> head]

\* the heap and the head of the List that tail() returns
tail(heap, head) ==
    LET link == IF head = None THEN None ELSE heap[head[1]].next
    IN  [heap |-> rc_clone(heap, link), head |-> link]

\* List::tail(&self) on the List l
ListTail(l) ==
    /\ rc_usable(l)
    /\ rc_Count < MaxLists
    /\ LET r == tail(rc_heap, l.head)
       IN  /\ rc_heap' = r.heap
           /\ rc_lists' = rc_lists (+) One(List(r.head))
    /\ rc_op' = "tail"
    /\ rc_ret' = None
    /\ UNCHANGED rc_iter_mut

\* what List::head() returns for a List with this head
head(heap, link) == IF link = None THEN None ELSE Some(heap[link[1]].elem)

\* List::into_iter(self): the List l becomes an IntoIter
ListIntoIter(l) ==
    /\ rc_usable(l)
    /\ rc_lists' = (rc_lists (-) One(l)) (+) One([l EXCEPT !.kind = "into_iter"])
    /\ rc_op' = "into_iter"
    /\ rc_ret' = None
    /\ UNCHANGED <<rc_heap, rc_iter_mut>>

\* IntoIter::next() that takes the node out without Rc::try_unwrap
IntoIterNextNoCheck(it) ==
    /\ BagIn(it, rc_lists)
    /\ it.kind = "into_iter"
    /\ LET link == it.head
       IN  IF link = None
           THEN /\ rc_ret' = None
                /\ UNCHANGED <<rc_heap, rc_lists>>
           ELSE /\ rc_lists' = (rc_lists (-) One(it)) (+)
                                   One([it EXCEPT !.head = rc_heap[link[1]].next])
                /\ rc_heap' = [rc_heap EXCEPT ![link[1]] = rc_NoNode]
                /\ rc_ret' = Some(rc_heap[link[1]].elem)
    /\ rc_op' = "next"
    /\ UNCHANGED rc_iter_mut

\* IntoIter::next() on the IntoIter it
IntoIterNext(it) ==
    /\ BagIn(it, rc_lists)
    /\ it.kind = "into_iter"
    /\ LET link == it.head
       IN  IF link = None
           THEN /\ rc_ret' = None
                /\ UNCHANGED <<rc_heap, rc_lists>>
           ELSE IF rc_unique(rc_heap, link[1])
                THEN /\ rc_lists' = (rc_lists (-) One(it)) (+)
                                        One([it EXCEPT !.head = rc_heap[link[1]].next])
                     /\ rc_heap' = [rc_heap EXCEPT ![link[1]] = rc_NoNode]
                     /\ rc_ret' = Some(rc_heap[link[1]].elem)
                ELSE /\ rc_lists' = (rc_lists (-) One(it)) (+) One([it EXCEPT !.head = None])
                     /\ rc_heap' = rc_drop(rc_heap, link)
                     /\ rc_ret' = None
    /\ rc_op' = "next"
    /\ UNCHANGED rc_iter_mut

\* List::drop that releases every node of the chain, shared or not
RECURSIVE list_dropAll(_, _)
list_dropAll(heap, link) ==
    IF link = None \/ ~heap[link[1]].live THEN heap
    ELSE list_dropAll([heap EXCEPT ![link[1]] = rc_NoNode], heap[link[1]].next)

\* the heap after the loop of List::drop on a List with this head
RECURSIVE list_drop(_, _)
list_drop(heap, link) ==
    IF link = None THEN heap
    ELSE IF rc_unique(heap, link[1])
         THEN list_drop([heap EXCEPT ![link[1]] = rc_NoNode], heap[link[1]].next)
         ELSE rc_drop(heap, link)

\* drop of the List l, or of the IntoIter l and so of the List in it
ListDrop(l) ==
    /\ BagIn(l, rc_lists)
    /\ rc_heap' = list_drop(rc_heap, l.head)
    /\ rc_lists' = rc_lists (-) One(l)
    /\ rc_op' = "drop"
    /\ rc_ret' = None
    /\ UNCHANGED rc_iter_mut

\* the drop glue of a Link: the share count goes down, and at zero the Node,
\* and so its next, is dropped before the cell is released; depth is how deep
\* the Node drops nest, freed the nodes in the order of their release
RECURSIVE rc_drop_glue(_, _)
rc_drop_glue(heap, link) ==
    IF link = None \/ ~heap[link[1]].live
    THEN [heap |-> heap, depth |-> 0, freed |-> <<>>]
    ELSE IF heap[link[1]].strong > 1
         THEN [heap |-> [heap EXCEPT ![link[1]].strong = @ - 1],
               depth |-> 0, freed |-> <<>>]
         ELSE LET inner == rc_drop_glue(heap, heap[link[1]].next)
              IN  [heap |-> [inner.heap EXCEPT ![link[1]] = rc_NoNode],
                   depth |-> 1 + inner.depth,
                   freed |-> Append(inner.freed, link[1])]

\* a List without the Drop impl: the drop glue runs on the head
list_drop_walkGlue(heap, head_link) ==
    LET d == rc_drop_glue(heap, head_link)
    IN  [heap |-> d.heap, iters |-> 0, depth |-> d.depth,
         freed |-> d.freed, stop |-> None]

\* the while loop of List::drop from head_link on: the heap it leaves, the
\* iterations it makes, the deepest nesting of Node drops, the nodes it
\* releases, in order, and the node at which it breaks
RECURSIVE list_drop_walk(_, _)
list_drop_walk(heap, head_link) ==
    IF head_link = None
    THEN [heap |-> heap, iters |-> 0, depth |-> 0, freed |-> <<>>, stop |-> None]
    ELSE LET node == head_link[1]
         IN  IF rc_unique(heap, node)
             THEN LET next_link == heap[node].next
                      taken == [heap EXCEPT ![node].next = None]
                      d == rc_drop_glue(taken, Some(node))
                      rest == list_drop_walk(d.heap, next_link)
                  IN  [heap |-> rest.heap,
                       iters |-> 1 + rest.iters,
                       depth |-> Max(d.depth, rest.depth),
                       freed |-> d.freed \o rest.freed,
                       stop |-> rest.stop]
             ELSE LET d == rc_drop_glue(heap, head_link)
                  IN  [heap |-> d.heap, iters |-> 1, depth |-> d.depth,
                       freed |-> d.freed, stop |-> head_link]

\* the Option<&mut Node> that Rc::get_mut gives for a Link
rc_get_mut(heap, link) ==
    IF link # None /\ rc_unique(heap, link[1]) THEN link ELSE None

\* List::iter_mut(&mut self) on the List l, which stays borrowed while the
\* IterMut exists; lent are the nodes whose &mut elem the iterator has yielded
ListIterMut(l) ==
    /\ rc_iter_mut = None
    /\ rc_usable(l)
    /\ rc_lists' = rc_lists (-) One(l)
    /\ rc_iter_mut' = Some([list |-> l.head,
                            next |-> rc_get_mut(rc_heap, l.head),
                            lent |-> {}])
    /\ rc_op' = "iter_mut"
    /\ rc_ret' = None
    /\ UNCHANGED rc_heap

\* IterMut::next() that follows next without Rc::get_mut
IterMutNextNoCheck ==
    /\ rc_iter_mut # None
    /\ LET it == rc_iter_mut[1]
       IN  IF it.next = None
           THEN /\ rc_ret' = None
                /\ UNCHANGED rc_iter_mut
           ELSE LET node == it.next[1]
                IN  /\ rc_iter_mut' = Some([it EXCEPT
                           !.next = rc_heap[node].next,
                           !.lent = @ \cup {node}])
                    /\ rc_ret' = Some(rc_heap[node].elem)
    /\ rc_op' = "next_mut"
    /\ UNCHANGED <<rc_heap, rc_lists>>

\* IterMut::next()
IterMutNext ==
    /\ rc_iter_mut # None
    /\ LET it == rc_iter_mut[1]
       IN  IF it.next = None
           THEN /\ rc_ret' = None
                /\ UNCHANGED rc_iter_mut
           ELSE LET node == it.next[1]
                IN  /\ rc_iter_mut' = Some([it EXCEPT
                           !.next = rc_get_mut(rc_heap, rc_heap[node].next),
                           !.lent = @ \cup {node}])
                    /\ rc_ret' = Some(rc_heap[node].elem)
    /\ rc_op' = "next_mut"
    /\ UNCHANGED <<rc_heap, rc_lists>>

\* *r = v through a yielded &mut elem
IterMutWrite(a, v) ==
    /\ rc_iter_mut # None
    /\ a \in rc_iter_mut[1].lent
    /\ rc_heap[a].elem # v
    /\ rc_heap' = [rc_heap EXCEPT ![a].elem = v]
    /\ rc_op' = "write"
    /\ rc_ret' = None
    /\ UNCHANGED <<rc_lists, rc_iter_mut>>

\* the IterMut and the borrows it yielded go out of scope
IterMutEnd ==
    /\ rc_iter_mut # None
    /\ rc_lists' = rc_lists (+) One(List(rc_iter_mut[1].list))
    /\ rc_iter_mut' = None
    /\ rc_op' = "end_mut"
    /\ rc_ret' = None
    /\ UNCHANGED rc_heap

\* no Iter exists and no node has been shared yet
rx_Init ==
    /\ rc_iter = None
    /\ rc_shared = FALSE

\* no Iter borrows the List l: it may be moved or dropped
rc_unborrowed(l) ==
    IF rc_iter = None THEN TRUE
    ELSE l # List(rc_iter[1].list) \/ CopiesIn(l, rc_lists) >= 2

\* List::iter(&self) on the List l, which stays borrowed, and usable through
\* &self, while the Iter exists; yielded are the nodes whose &elem the
\* iterator has yielded, in order
ListIter(l) ==
    /\ rc_iter = None
    /\ rc_usable(l)
    /\ rc_iter' = Some([list |-> l.head, next |-> l.head, yielded |-> <<>>])
    /\ rc_op' = "iter"
    /\ rc_ret' = None
    /\ UNCHANGED <<rc_heap, rc_lists, rc_iter_mut>>

\* Iter::next() that goes on only to a node no other holder shares
IterNextUniqueOnly ==
    /\ rc_iter # None
    /\ LET it == rc_iter[1]
       IN  IF it.next = None
           THEN /\ rc_ret' = None
                /\ UNCHANGED rc_iter
           ELSE LET node == it.next[1]
                IN  /\ rc_iter' = Some([it EXCEPT
                           !.next = rc_get_mut(rc_heap, rc_heap[node].next),
                           !.yielded = Append(@, node)])
                    /\ rc_ret' = Some(rc_heap[node].elem)
    /\ rc_op' = "next_ref"
    /\ UNCHANGED <<rc_heap, rc_lists, rc_iter_mut>>

\* Iter::next()
IterNext ==
    /\ rc_iter # None
    /\ LET it == rc_iter[1]
       IN  IF it.next = None
           THEN /\ rc_ret' = None
                /\ UNCHANGED rc_iter
           ELSE LET node == it.next[1]
                IN  /\ rc_iter' = Some([it EXCEPT
                           !.next = rc_heap[node].next,
                           !.yielded = Append(@, node)])
                    /\ rc_ret' = Some(rc_heap[node].elem)
    /\ rc_op' = "next_ref"
    /\ UNCHANGED <<rc_heap, rc_lists, rc_iter_mut>>

\* the Iter and the borrows it yielded go out of scope
IterEnd ==
    /\ rc_iter # None
    /\ rc_iter' = None
    /\ rc_op' = "end_ref"
    /\ rc_ret' = None
    /\ UNCHANGED <<rc_heap, rc_lists, rc_iter_mut>>

\* the elements reached from link by following next, in order
RECURSIVE rc_Elems(_, _, _)
rc_Elems(heap, link, fuel) ==
    IF link = None \/ fuel = 0 THEN <<>>
    ELSE <<heap[link[1]].elem>> \o rc_Elems(heap, heap[link[1]].next, fuel - 1)

\* the nodes reached from link by following next, in order
RECURSIVE rc_Nodes(_, _, _)
rc_Nodes(heap, link, fuel) ==
    IF link = None \/ fuel = 0 THEN <<>>
    ELSE <<link[1]>> \o rc_Nodes(heap, heap[link[1]].next, fuel - 1)

Range(f) == {f[i] : i \in DOMAIN f}
rc_Reach(heap, link) == Range(rc_Nodes(heap, link, MaxNodes + 1))
rc_Seq(heap, link) == rc_Elems(heap, link, MaxNodes + 1)

\* the List and IntoIter values of the program
rc_Handles == BagToSet(rc_lists)

Init == ll_Init /\ st_Init /\ sx_Init /\ rc_Init /\ rx_Init

\* the other two containers are not touched
ll_Frame == UNCHANGED <<st_vars, sx_vars, rc_vars, rx_vars>>
st_Frame == UNCHANGED <<ll_vars, sx_vars, rc_vars, rx_vars>>
sx_Frame == UNCHANGED <<ll_vars, rc_vars, rx_vars>>
rc_Frame == UNCHANGED <<ll_vars, st_vars, sx_vars, rx_vars>>
rx_Frame == UNCHANGED <<ll_vars, st_vars, sx_vars, rc_shared>>

\* the history of sharing: a node has two holders after the step, or had before
rc_Track ==
    /\ rc_shared' = (rc_shared \/ \E a \in Addr : rc_heap'[a].strong >= 2)
    /\ UNCHANGED <<ll_vars, st_vars, sx_vars, rc_iter>>

\* a program that uses a LinkedList
NextDeque ==
    \/ (\E elem \in Values, new \in Addr : PushFront(elem, new)) /\ ll_Frame
    \/ PopFront /\ ll_Frame
    \/ LinkedListDrop /\ ll_Frame
SpecDeque == Init /\ [][NextDeque]_vars

\* a program that uses a second.rs List
NextStack ==
    \/ (\E elem \in Values, new \in Addr : Push(elem, new)) /\ st_Frame
    \/ Pop /\ st_Frame
SpecStack == Init /\ [][NextStack]_vars

\* a program that uses a second.rs List until a pop returns None, and a
\* LinkedList from then on
NextBoth ==
    \/ ll_op = "new" /\ NextStack
    \/ st_op = "pop" /\ st_ret = None /\ NextDeque
SpecBoth == Init /\ [][NextBoth]_vars

\* a program that pushes, pops and peeks
NextStackPeek ==
    \/ st_mode = "list" /\ NextStack
    \/ Peek /\ st_Frame
    \/ (\E v \in Values : PeekMutWrite(v)) /\ st_Frame
SpecStackPeek == Init /\ [][NextStackPeek]_vars

\* a program that pushes and pops, and iterates by mutable borrow and writes
\* through the borrows
NextStackIterMut ==
    \/ st_mode = "list" /\ NextStack
    \/ StIterMut /\ sx_Frame
    \/ StIterMutNext /\ sx_Frame
    \/ (\E i \in 1..MaxNodes, v \in Values : StWrite(i, v)) /\ sx_Frame
    \/ StIterEnd /\ sx_Frame
SpecStackIterMut == Init /\ [][NextStackIterMut]_vars

\* a program that pushes and pops, may turn the List into an IntoIter, and
\* drops what it holds
NextStackOwned ==
    \/ st_mode = "list" /\ NextStack
    \/ StIntoIter /\ sx_Frame
    \/ StIntoIterNext /\ sx_Frame
    \/ StDrop /\ sx_Frame
SpecStackOwned == Init /\ [][NextStackOwned]_vars

\* a program that makes, prepends to, takes tails of and drops third.rs Lists
NextShared ==
    \/ ListNew /\ rc_Frame
    \/ (\E l \in rc_Handles, elem \in rc_Values, new \in Addr : ListPrepend(l, elem, new)) /\ rc_Frame
    \/ (\E l \in rc_Handles : ListTail(l)) /\ rc_Frame
    \/ (\E l \in rc_Handles : ListDrop(l)) /\ rc_Frame
SpecShared == Init /\ [][NextShared]_vars

\* ... and iterates over them by value
NextIntoIter ==
    \/ NextShared
    \/ (\E l \in rc_Handles : ListIntoIter(l)) /\ rc_Frame
    \/ (\E l \in rc_Handles : IntoIterNext(l)) /\ rc_Frame
SpecIntoIter == Init /\ [][NextIntoIter]_vars

\* ... or iterates over one of them by mutable borrow and writes through
\* the borrows
NextIterMut ==
    \/ NextShared
    \/ (\E l \in rc_Handles : ListIterMut(l)) /\ rc_Frame
    \/ IterMutNext /\ rc_Frame
    \/ (\E a \in Addr, v \in rc_Values : IterMutWrite(a, v)) /\ rc_Frame
    \/ IterMutEnd /\ rc_Frame
SpecIterMut == Init /\ [][NextIterMut]_vars

\* the program of SpecIntoIter, with the history of sharing
NextReclaim ==
    \/ ListNew /\ rc_Track
    \/ (\E l \in rc_Handles, elem \in rc_Values, new \in Addr : ListPrepend(l, elem, new)) /\ rc_Track
    \/ (\E l \in rc_Handles : ListTail(l)) /\ rc_Track
    \/ (\E l \in rc_Handles : ListDrop(l)) /\ rc_Track
    \/ (\E l \in rc_Handles : ListIntoIter(l)) /\ rc_Track
    \/ (\E l \in rc_Handles : IntoIterNext(l)) /\ rc_Track
SpecReclaim == Init /\ [][NextReclaim]_vars

\* a program that iterates over a stack by shared borrow, empties the stack,
\* and then makes shared lists and iterates over one of them by shared borrow
\* while it goes on using them
NextIter ==
    \/ rc_op = "new" /\ st_mode = "list" /\ NextStack
    \/ rc_op = "new" /\ StIter /\ sx_Frame
    \/ rc_op = "new" /\ StIterNext /\ sx_Frame
    \/ rc_op = "new" /\ StIterEnd /\ sx_Frame
    \/ st_Done /\ ListNew /\ rc_Frame
    \/ st_Done /\ (\E l \in rc_Handles, elem \in rc_Values, new \in Addr : ListPrepend(l, elem, new)) /\ rc_Frame
    \/ st_Done /\ (\E l \in rc_Handles : ListTail(l)) /\ rc_Frame
    \/ st_Done /\ (\E l \in rc_Handles : rc_unborrowed(l) /\ ListDrop(l)) /\ rc_Frame
    \/ st_Done /\ (\E l \in rc_Handles : ListIter(l)) /\ rx_Frame
    \/ st_Done /\ IterNext /\ rx_Frame
    \/ st_Done /\ IterEnd /\ rx_Frame
SpecIter == Init /\ [][NextIter]_vars

\* ---------------------------------------------------------------- claims

\* C1: while the deque exists, front is absent iff back is absent iff len is 0;
\* the back-ward link of A is B iff the front-ward link of B is A; the front
\* node has no front-ward link and the back node has no back-ward link.
C1_Structure ==
    ll_state = "live" =>
        /\ (ll_front = None) = (ll_back = None)
        /\ (ll_back = None) = (ll_len = 0)
        /\ \A a, b \in ll_Live :
              (ll_heap[a].back = Some(b)) = (ll_heap[b].front = Some(a))
        /\ ll_front # None => ll_heap[ll_front[1]].live /\ ll_heap[ll_front[1]].front = None
        /\ ll_back # None => ll_heap[ll_back[1]].live /\ ll_heap[ll_back[1]].back = None

C1_Witness ==
    /\ ll_state = "live"
    /\ ll_op = "pop_front"
    /\ ll_len = 2
    /\ ll_heap[ll_front[1]].back = ll_back

\* C2: while the deque exists, len() is the number of live nodes and the number
\* of nodes on the walk from front along the back-ward links, and is never
\* negative; push_front raises it by 1 and a pop_front that returns an element
\* lowers it by 1.
C2_LenInv ==
    ll_state = "live" =>
        /\ LinkedListLen = Cardinality(ll_Live)
        /\ LinkedListLen = Len(ll_Chain)
        /\ LinkedListLen >= 0

C2_LenStep ==
    /\ (ll_vars' # ll_vars /\ ll_op' = "push_front") => ll_len' = ll_len + 1
    /\ (ll_vars' # ll_vars /\ ll_op' = "pop_front" /\ ll_ret' # None) =>
           ll_len > 0 /\ ll_len' = ll_len - 1
    /\ (ll_op' = "pop_front" /\ ll_ret' = None) => ll_len' = ll_len

\* C2: len() is exact in every state and moves by exactly 1 per push_front
\* and per pop_front that returns an element.
C2_LenExact == [] C2_LenInv /\ [][C2_LenStep]_vars

C2_Witness ==
    /\ ll_state = "live"
    /\ ll_op = "pop_front"
    /\ ll_ret # None
    /\ ll_len = 2

\* C3: no node is released twice, and once the deque has been dropped no node
\* is still allocated.
C3_ReleasedOnce ==
    /\ \A a \in Addr : ll_frees[a] <= 1
    /\ ll_state = "dropped" => ll_Live = {}

\* C4: the stack holds the pushed, not yet popped elements newest first; a pop
\* on a non-empty list returns the newest of them and removes exactly it.
Reverse(s) == [i \in 1..Len(s) |-> s[Len(s) + 1 - i]]

C4_Order == st_List = Reverse([i \in 1..Len(st_pushed) |-> st_pushed[i].elem])

C4_PopStep ==
    (st_op' = "pop" /\ st_pushed # <<>> /\ st_vars' # st_vars) =>
        /\ st_ret' = Some(st_pushed[Len(st_pushed)].elem)
        /\ st_pushed' = SubSeq(st_pushed, 1, Len(st_pushed) - 1)

\* C4: pop order is last in, first out, in every state and at every pop.
C4_Lifo == [] C4_Order /\ [][C4_PopStep]_vars

C4_Witness ==
    /\ st_op = "pop"
    /\ st_ret # None
    /\ Len(st_pushed) = 2
    /\ st_pushed[1].elem # st_pushed[2].elem

\* C5: a pop on an empty stack returns None and leaves the head absent; a
\* pop_front on an empty deque returns None and leaves front and back absent
\* and len 0.
C5_EmptyStep ==
    /\ (st_op' = "pop" /\ st_head = None /\ ll_vars' = ll_vars) =>
           st_ret' = None /\ st_head' = None /\ st_heap' = st_heap
    /\ (ll_op' = "pop_front" /\ ll_front = None /\ st_vars' = st_vars) =>
           /\ ll_ret' = None
           /\ ll_front' = None /\ ll_back' = None /\ ll_len' = 0
           /\ ll_heap' = ll_heap

C5_EmptyInv ==
    /\ (st_op = "pop" /\ st_ret = None) => st_head = None
    /\ (ll_op = "pop_front" /\ ll_ret = None) =>
           ll_front = None /\ ll_back = None /\ ll_len = 0

\* C5: a pop on an empty container returns None and changes nothing.
C5_EmptyPop == [] C5_EmptyInv /\ [][C5_EmptyStep]_vars

C5_Witness ==
    /\ st_op = "pop" /\ st_ret = None /\ st_head = None
    /\ ll_op = "pop_front" /\ ll_ret = None /\ ll_len = 0
    /\ \E a \in Addr : ll_frees[a] = 1

\* every node reached from a List or IntoIter of the program is allocated
rc_NoDangling ==
    \A h \in rc_Handles : \A a \in rc_Reach(rc_heap, h.head) : rc_heap[a].live

\* C6: a drop of one list leaves every other list with the same element
\* sequence, and no node reached from a list of the program is released.
C6_DropStep ==
    (rc_op' = "drop" /\ rc_lists' # rc_lists) =>
        \A h \in BagToSet(rc_lists') :
            /\ rc_Seq(rc_heap', h.head) = rc_Seq(rc_heap, h.head)
            /\ rc_Nodes(rc_heap', h.head, MaxNodes + 1) = rc_Nodes(rc_heap, h.head, MaxNodes + 1)
            /\ \A a \in rc_Reach(rc_heap', h.head) : rc_heap'[a].live

\* C6: no drop changes or releases what another list reaches.
C6_DropKeepsOthers == [] rc_NoDangling /\ [][C6_DropStep]_vars

\* two lists prepended onto a common tail, after the tail list was dropped
C6_Witness ==
    /\ rc_op = "drop"
    /\ \E h1, h2 \in rc_Handles :
          /\ h1.head # None /\ h2.head # None /\ h1.head # h2.head
          /\ rc_heap[h1.head[1]].next # None
          /\ rc_heap[h1.head[1]].next = rc_heap[h2.head[1]].next
          /\ rc_heap[rc_heap[h1.head[1]].next[1]].strong = 2

\* C7: prepend(v) on L adds a list v followed by the elements of L whose new
\* node's next is L's head; every list that existed keeps its head and its
\* elements, and of the existing nodes only L's head node changes: its share
\* count grows by 1.
C7_PrependStep ==
    (rc_op' = "prepend" /\ rc_vars' # rc_vars) =>
        \E l \in rc_Handles, new \in Addr :
            /\ l.kind = "list"
            /\ ~rc_heap[new].live
            /\ rc_lists' = rc_lists (+) One(List(Some(new)))
            /\ rc_heap'[new].live /\ rc_heap'[new].next = l.head
            /\ rc_Seq(rc_heap', Some(new)) = <<rc_heap'[new].elem>> \o rc_Seq(rc_heap, l.head)
            /\ rc_Seq(rc_heap', l.head) = rc_Seq(rc_heap, l.head)
            /\ \A a \in Addr \ {new} :
                  rc_heap'[a] = IF l.head = Some(a)
                                THEN [rc_heap[a] EXCEPT !.strong = @ + 1]
                                ELSE rc_heap[a]

\* C7: every prepend step adds one list in front of L and leaves L as it was.
C7_Prepend == [][C7_PrependStep]_vars

C7_Witness ==
    /\ rc_op = "prepend"
    /\ \E h \in rc_Handles :
          /\ h.head # None
          /\ rc_heap[h.head[1]].next # None
          /\ BagIn(List(rc_heap[h.head[1]].next), rc_lists)
          /\ BagIn(List(h.head), rc_lists)
          /\ rc_heap[h.head[1]].strong = 1
          /\ rc_heap[rc_heap[h.head[1]].next[1]].strong = 2

\* C8: for every list L of the program, L.prepend(v).tail() has the head and
\* the elements of L; tail() of L has the elements of L without the first, is
\* empty when L has at most one element, and leaves L's head, elements and
\* nodes as they were; head() of an empty list is None.
C8_TailInv ==
    /\ head(rc_heap, None) = None
    /\ \A l \in rc_Handles :
          LET t == tail(rc_heap, l.head)
              old == rc_Seq(rc_heap, l.head)
          IN  /\ Len(old) <= 1 => t.head = None /\ t.heap = rc_heap
              /\ Len(old) >= 1 =>
                     /\ rc_Seq(t.heap, t.head) = Tail(old)
                     /\ head(rc_heap, l.head) = Some(old[1])
              /\ rc_Seq(t.heap, l.head) = old
              /\ \A v \in rc_Values, new \in Addr :
                     ~rc_heap[new].live =>
                         LET p == prepend(rc_heap, l.head, v, new)
                             pt == tail(p.heap, p.head)
                         IN  /\ pt.head = l.head
                             /\ head(p.heap, p.head) = Some(v)
                             /\ rc_Seq(pt.heap, pt.head) = old

C8_TailStep ==
    (rc_op' = "tail" /\ rc_vars' # rc_vars) =>
        /\ \E l \in rc_Handles :
              /\ l.kind = "list"
              /\ rc_lists' = rc_lists (+)
                    One(List(IF l.head = None THEN None ELSE rc_heap[l.head[1]].next))
        /\ \A a \in Addr :
              /\ rc_heap'[a].live = rc_heap[a].live
              /\ rc_heap'[a].elem = rc_heap[a].elem
              /\ rc_heap'[a].next = rc_heap[a].next

\* C8: tail undoes prepend, is total and mutates nothing.
C8_TailUndoesPrepend == [] C8_TailInv /\ [][C8_TailStep]_vars

\* tail() of a list of two elements or more has been taken
C8_Witness ==
    /\ rc_op = "tail"
    /\ \E h \in rc_Handles :
          /\ Len(rc_Seq(rc_heap, h.head)) = 2
          /\ BagIn(List(rc_heap[h.head[1]].next), rc_lists)
          /\ rc_heap[rc_heap[h.head[1]].next[1]].strong = 2

\* C9: IntoIter::next() on an exhausted iterator returns None and changes
\* nothing; on a head whose share count is one it returns the head's element,
\* releases that node and goes on to its next; on a shared head it returns
\* None, leaves the iterator empty and keeps element and next of every node;
\* every other list or iterator keeps its elements.
C9_NextStep ==
    (rc_op' = "next" /\ rc_vars' # rc_vars) =>
        \E it \in rc_Handles :
            /\ it.kind = "into_iter"
            /\ LET rest == rc_lists (-) One(it)
               IN  /\ \A h \in BagToSet(rest) :
                         rc_Seq(rc_heap', h.head) = rc_Seq(rc_heap, h.head)
                   /\ IF it.head = None
                      THEN rc_ret' = None /\ rc_lists' = rc_lists /\ rc_heap' = rc_heap
                      ELSE LET a == it.head[1]
                           IN  IF rc_heap[a].strong = 1
                               THEN /\ rc_ret' = Some(rc_heap[a].elem)
                                    /\ rc_lists' = rest (+) One([it EXCEPT !.head = rc_heap[a].next])
                                    /\ rc_heap' = [rc_heap EXCEPT ![a] = rc_NoNode]
                               ELSE /\ rc_ret' = None
                                    /\ rc_lists' = rest (+) One([it EXCEPT !.head = None])
                                    /\ \A b \in Addr :
                                          /\ rc_heap'[b].live = rc_heap[b].live
                                          /\ rc_heap'[b].elem = rc_heap[b].elem
                                          /\ rc_heap'[b].next = rc_heap[b].next

\* C9: by-value iteration yields unshared heads and stops at a shared one.
C9_IntoIterStops == [] rc_NoDangling /\ [][C9_NextStep]_vars

\* an iterator that has yielded an element and now stands at a shared node
C9_Witness ==
    /\ rc_op = "next"
    /\ rc_ret # None
    /\ \E it \in rc_Handles :
          /\ it.kind = "into_iter"
          /\ it.head # None
          /\ rc_heap[it.head[1]].strong = 2
          /\ BagIn(List(it.head), rc_lists)

\* C10: the nodes whose elements IterMut has yielded or will yield next have
\* share count one and are reached from no other list; they are a prefix of
\* the borrowed list's chain, yielded in that order; the iterator ends only at
\* the end of the chain or at a node that was shared when it got there; a write
\* through a yielded borrow changes no other list's elements.
C10_MutInv ==
    rc_iter_mut # None =>
        LET it == rc_iter_mut[1]
            chain == rc_Nodes(rc_heap, it.list, MaxNodes + 1)
            n == Cardinality(it.lent)
        IN  /\ n <= Len(chain)
            /\ it.lent = {chain[i] : i \in 1..n}
            /\ it.next # None => n < Len(chain) /\ it.next = Some(chain[n + 1])
            /\ \A a \in it.lent \cup Range(it.next) :
                  /\ rc_heap[a].live
                  /\ rc_heap[a].strong = 1
                  /\ \A h \in rc_Handles : a \notin rc_Reach(rc_heap, h.head)

C10_MutStep ==
    /\ (rc_op' = "iter_mut" /\ rc_vars' # rc_vars) =>
           LET it == rc_iter_mut'[1]
           IN  it.next = None =>
                   it.list = None \/ rc_heap[it.list[1]].strong > 1
    /\ (rc_op' = "next_mut" /\ rc_vars' # rc_vars) =>
           LET it == rc_iter_mut[1]
           IN  IF it.next = None
               THEN rc_ret' = None /\ rc_iter_mut' = rc_iter_mut
               ELSE LET after == rc_heap[it.next[1]].next
                    IN  /\ rc_ret' = Some(rc_heap[it.next[1]].elem)
                        /\ rc_iter_mut'[1].lent = it.lent \cup {it.next[1]}
                        /\ rc_iter_mut'[1].next = None =>
                               after = None \/ rc_heap[after[1]].strong > 1
    /\ (rc_op' = "write" /\ rc_vars' # rc_vars) =>
           \A h \in rc_Handles : rc_Seq(rc_heap', h.head) = rc_Seq(rc_heap, h.head)

\* C10: iter_mut yields only nodes no other list reaches.
C10_IterMutUnique == [] C10_MutInv /\ [][C10_MutStep]_vars

\* the iterator stopped before a shared node and a yielded element was written
C10_Witness ==
    /\ rc_op = "write"
    /\ rc_iter_mut # None
    /\ rc_iter_mut[1].next = None
    /\ rc_iter_mut[1].lent # {}
    /\ Cardinality(rc_iter_mut[1].lent) < Len(rc_Nodes(rc_heap, rc_iter_mut[1].list, MaxNodes + 1))

\* the elements of the deque's chain, front first
ll_ChainElems == [i \in 1..Len(ll_Chain) |-> ll_heap[ll_Chain[i]].elem]

\* C16: while the deque exists its chain holds the pushed, not yet popped
\* elements newest first, each once; a pop_front on a non-empty deque returns
\* the newest of them and removes exactly it; with none left it returns None.
C16_Order ==
    ll_state = "live" =>
        /\ ll_ChainElems = Reverse([i \in 1..Len(ll_pushed) |-> ll_pushed[i].elem])
        /\ ll_Chain = Reverse([i \in 1..Len(ll_pushed) |-> ll_pushed[i].node])
        /\ Cardinality(Range(ll_Chain)) = Len(ll_Chain)

C16_PopStep ==
    (ll_op' = "pop_front" /\ ll_vars' # ll_vars) =>
        IF ll_pushed = <<>>
        THEN ll_ret' = None /\ ll_pushed' = <<>>
        ELSE /\ ll_ret' = Some(ll_pushed[Len(ll_pushed)].elem)
             /\ ll_pushed' = SubSeq(ll_pushed, 1, Len(ll_pushed) - 1)

\* C16: pop_front order is last in, first out, in every state and at every pop.
C16_DequeLifo == [] C16_Order /\ [][C16_PopStep]_vars

\* a pop_front returned the newer of two different elements
C16_Witness ==
    /\ ll_state = "live"
    /\ ll_op = "pop_front"
    /\ ll_ret # None
    /\ Len(ll_pushed) = 1
    /\ ll_ret # Some(ll_pushed[1].elem)

\* C19: while the deque exists, back is the last node of the chain walked from
\* front, which is the oldest element; front, back and the links of allocated
\* nodes refer to allocated nodes only.
ll_LinkOk(link) == link = None \/ ll_heap[link[1]].live

C19_BackInv ==
    /\ ll_LinkOk(ll_front) /\ ll_LinkOk(ll_back)
    /\ \A a \in ll_Live : ll_LinkOk(ll_heap[a].front) /\ ll_LinkOk(ll_heap[a].back)
    /\ ll_state = "live" =>
           IF ll_Chain = <<>> THEN ll_back = None
           ELSE /\ ll_back = Some(ll_Chain[Len(ll_Chain)])
                /\ ll_back = Some(ll_pushed[1].node)

\* C19: push_front onto a non-empty deque and pop_front of a deque of two nodes
\* or more leave back unchanged; push_front onto an empty deque sets front and
\* back to the new node; pop_front of the last node clears front and back.
C19_BackStep ==
    /\ (ll_op' = "push_front" /\ ll_vars' # ll_vars) =>
           IF ll_len = 0
           THEN ll_front' = ll_back' /\ ll_front' # None /\ ~ll_heap[ll_front'[1]].live
           ELSE ll_back' = ll_back
    /\ (ll_op' = "pop_front" /\ ll_vars' # ll_vars /\ ll_len >= 2) => ll_back' = ll_back
    /\ (ll_op' = "pop_front" /\ ll_vars' # ll_vars /\ ll_len = 1) =>
           ll_front' = None /\ ll_back' = None

\* C19: back always designates the oldest element and nothing dangles.
C19_BackOldest == [] C19_BackInv /\ [][C19_BackStep]_vars

\* the last node was popped after back had stayed in place over a push and a pop
C19_Witness ==
    /\ ll_op = "pop_front"
    /\ ll_ret # None
    /\ ll_front = None /\ ll_back = None
    /\ Cardinality({a \in Addr : ll_frees[a] = 1}) >= 2

\* the value the next pop would return
st_Top == IF st_List = <<>> THEN None ELSE Some(st_List[1])

\* C15: what peek or peek_mut returned is the empty-signal on an empty list and
\* otherwise the value the next pop would return had nothing been written.
C15_PeekInv ==
    /\ st_op = "peek" => st_ret = st_Top
    /\ (st_op = "peek_mut" /\ st_List = <<>>) => st_ret = None
    /\ (st_op = "peek_mut" /\ st_List # <<>>) => st_ret # None

\* C15: peek returns the head element and changes nothing; a write of v through
\* peek_mut replaces the head element by v in place and changes no other
\* element, no link and no node; pop returns the head element as it then is.
C15_PeekStep ==
    /\ (st_op' = "peek" /\ st_vars' # st_vars) =>
           /\ st_ret' = st_Top
           /\ st_List' = st_List /\ st_head' = st_head /\ st_heap' = st_heap
    /\ \A v \in Values : (PeekMutWrite(v) /\ st_vars' # st_vars) =>
           IF st_List = <<>>
           THEN st_ret' = None /\ st_List' = <<>> /\ st_heap' = st_heap
           ELSE /\ st_ret' = st_Top
                /\ st_List' = <<v>> \o Tail(st_List)
                /\ st_Top' = Some(v)
                /\ st_Chain' = st_Chain
                /\ st_Live' = st_Live
    /\ (st_op' = "pop" /\ st_vars' # st_vars) => st_ret' = st_Top

\* C15: peek and peek_mut look at, and write, the head element only.
C15_PeekHead == [] C15_PeekInv /\ [][C15_PeekStep]_vars

\* peek_mut on a list of two elements or more replaced the head element by
\* another value
C15_Witness ==
    /\ st_op = "peek_mut"
    /\ Len(st_List) >= 2
    /\ st_ret # None
    /\ st_ret # st_Top

\* C13: while an IterMut exists, the nodes it has yielded followed by the nodes
\* it has still to yield are the chain of the list, each node once, and the
\* list holds the pushed elements most recent first.
C13_MutInv ==
    /\ st_mode = "iter_mut" =>
           /\ st_yielded \o st_Nodes(st_next, MaxNodes + 1) = st_Chain
           /\ Cardinality(Range(st_Chain)) = Len(st_Chain)
    /\ (st_mode = "iter_mut" /\ st_op = "next_mut" /\ st_ret = None) =>
           Len(st_yielded) = Len(st_Chain)
    /\ st_List = Reverse([i \in 1..Len(st_pushed) |-> st_pushed[i].elem])

\* C13: next() yields the borrow of the next element in head-to-tail order, or
\* the empty-signal once all were yielded, and changes nothing; a write of v
\* through the i-th borrow replaces the i-th element and nothing else; when the
\* iterator goes away the list is as it was.
C13_MutStep ==
    /\ (st_op' = "next_mut" /\ <<st_vars, sx_vars>>' # <<st_vars, sx_vars>>) =>
           /\ IF Len(st_yielded) < Len(st_Chain)
              THEN /\ st_ret' = Some(st_List[Len(st_yielded) + 1])
                   /\ st_yielded' = Append(st_yielded, st_Chain[Len(st_yielded) + 1])
              ELSE st_ret' = None /\ st_yielded' = st_yielded
           /\ st_List' = st_List /\ st_Chain' = st_Chain
    /\ \A i \in 1..MaxNodes, v \in Values : StWrite(i, v) =>
           /\ i <= Len(st_List)
           /\ st_List' = [st_List EXCEPT ![i] = v]
           /\ st_Chain' = st_Chain
           /\ i = 1 => peek(st_heap', st_head') = Some(v)
    /\ (st_op' = "end" /\ <<st_vars, sx_vars>>' # <<st_vars, sx_vars>>) =>
           st_List' = st_List /\ st_Chain' = st_Chain /\ st_mode' = "list"

\* C13: iter_mut yields every element once, head to tail, and a write through
\* a yielded borrow lands on that element only.
C13_StackIterMut == [] C13_MutInv /\ [][C13_MutStep]_vars

\* a write through a borrow of an iterator that has yielded two elements or
\* more and has not reached the end of the list
C13_Witness ==
    /\ st_mode = "iter_mut"
    /\ st_op = "write"
    /\ Len(st_yielded) >= 2
    /\ Len(st_yielded) < Len(st_Chain)

\* C11: on every list the program can hold, the loop of List::drop makes one
\* iteration per node, releases the nodes of the chain one by one from the
\* head, each once, never nests a node drop in another (every node is released
\* with its next already None), and leaves no node allocated.
C11_LoopInv ==
    st_mode \in {"list", "into_iter"} =>
        LET w == list_drop_loop(st_heap, st_head)
        IN  /\ w.iters = Len(st_Chain)
            /\ w.depth <= 1
            /\ w.freed = st_Chain
            /\ Cardinality(Range(st_Chain)) = Len(st_Chain)
            /\ \A a \in Addr : ~w.heap[a].live

\* C11: a drop leaves the head None and no node allocated.
C11_DropStep ==
    (st_op' = "drop" /\ <<st_vars, sx_vars>>' # <<st_vars, sx_vars>>) =>
        /\ st_head' = None
        /\ st_Live' = {}
        /\ st_mode' \in {"dropped", "dropped_iter"}

\* C11: teardown of the stack is a loop of N iterations of nesting depth one.
C11_StackDrop == [] C11_LoopInv /\ [][C11_DropStep]_vars

\* a List of two nodes or more was dropped without being popped
C11_Witness ==
    /\ st_mode = "dropped"
    /\ st_op = "drop"
    /\ Len(st_pushed) >= 2
    /\ st_Live = {}

\* C14: the list in an IntoIter holds the not yet yielded elements, most
\* recently pushed first, in the only nodes still allocated; once next() has
\* returned the empty-signal the list is empty.
C14_IntoInv ==
    st_mode = "into_iter" =>
        /\ st_List = Reverse([i \in 1..Len(st_pushed) |-> st_pushed[i].elem])
        /\ st_Live = Range(st_Chain)
        /\ (st_op = "pop" /\ st_ret = None) => (st_head = None /\ st_Live = {})

\* C14: next() of the IntoIter, like pop of the List, returns the head element
\* and leaves the rest of the list, releasing the head node, or returns the
\* empty-signal on the empty list; dropping the IntoIter releases the nodes
\* not yet yielded, each once.
C14_IntoStep ==
    /\ (st_op' = "pop" /\ st_vars' # st_vars) =>
           IF st_List = <<>>
           THEN st_ret' = None /\ st_List' = <<>> /\ st_head' = None
           ELSE /\ st_ret' = Some(Head(st_List))
                /\ st_List' = Tail(st_List)
                /\ st_Live' = st_Live \ {st_Chain[1]}
    /\ (st_mode = "into_iter" /\ st_op' = "drop") =>
           /\ list_drop_loop(st_heap, st_head).freed = st_Chain
           /\ st_Live' = {}
           /\ st_mode' = "dropped_iter"

\* C14: into_iter yields what repeated pop returns and its drop releases the
\* rest.
C14_StackIntoIter == [] C14_IntoInv /\ [][C14_IntoStep]_vars

\* an IntoIter that had yielded an element was dropped while elements were
\* still to be yielded
C14_Witness ==
    /\ st_mode = "dropped_iter"
    /\ st_ret # None
    /\ Len(st_pushed) >= 1
    /\ st_Live = {}

\* the number of List and IntoIter values whose head is the node a
rc_Heads(a) ==
    CopiesIn([kind |-> "list", head |-> Some(a)], rc_lists)
        + CopiesIn([kind |-> "into_iter", head |-> Some(a)], rc_lists)

\* the allocated nodes
rc_Live == {a \in Addr : rc_heap[a].live}

\* the number of allocated nodes whose next is the node a
rc_Preds(a) == Cardinality({b \in rc_Live : rc_heap[b].next = Some(a)})

\* C17: the next link of an allocated node is None or an allocated node; the
\* chain from every head reaches None without visiting a node twice; the share
\* count of an allocated node is the number of heads plus the number of next
\* links that refer to it; a cell without a node has no share.
C17_Forest ==
    /\ \A a \in rc_Live :
           /\ rc_heap[a].next # None => rc_heap[a].next[1] \in rc_Live
           /\ rc_heap[a].strong = rc_Heads(a) + rc_Preds(a)
           /\ rc_heap[a].strong >= 1
    /\ \A a \in Addr \ rc_Live : rc_heap[a] = rc_NoNode
    /\ \A h \in rc_Handles :
           LET chain == rc_Nodes(rc_heap, h.head, MaxNodes + 1)
           IN  /\ Len(chain) <= MaxNodes
               /\ Cardinality(Range(chain)) = Len(chain)
               /\ Range(chain) \subseteq rc_Live
               /\ chain # <<>> => rc_heap[chain[Len(chain)]].next = None

\* a node shared by two holders and a next link while a by-value iterator
\* exists
C17_Witness ==
    /\ \E a \in rc_Live :
           rc_Heads(a) >= 1 /\ rc_Preds(a) >= 1 /\ rc_heap[a].strong >= 3
    /\ \E it \in rc_Handles : it.kind = "into_iter"

\* the nodes from link on that have one holder, up to the first shared node
RECURSIVE rc_OwnedPrefix(_, _, _)
rc_OwnedPrefix(heap, link, fuel) ==
    IF link = None \/ fuel = 0 \/ ~rc_unique(heap, link[1]) THEN <<>>
    ELSE <<link[1]>> \o rc_OwnedPrefix(heap, heap[link[1]].next, fuel - 1)

\* C12: for every List and IntoIter the program holds, the loop of List::drop
\* releases the nodes of the chain that have no other holder, one per
\* iteration from the head, never nesting a node drop in another; at the first
\* shared node it breaks after lowering that node's share count by 1; every
\* other node, that one's elem and next included, is as before.
C12_WalkInv ==
    \A h \in rc_Handles :
        LET w == list_drop_walk(rc_heap, h.head)
            chain == rc_Nodes(rc_heap, h.head, MaxNodes + 1)
            owned == rc_OwnedPrefix(rc_heap, h.head, MaxNodes + 1)
        IN  /\ w.freed = owned
            /\ w.depth <= 1
            /\ \A a \in Range(owned) : w.heap[a] = rc_NoNode
            /\ IF Len(owned) = Len(chain)
               THEN /\ w.stop = None
                    /\ w.iters = Len(owned)
                    /\ \A a \in Addr \ Range(owned) : w.heap[a] = rc_heap[a]
               ELSE LET shared == chain[Len(owned) + 1]
                    IN  /\ w.stop = Some(shared)
                        /\ w.iters = Len(owned) + 1
                        /\ w.heap[shared] = [rc_heap[shared] EXCEPT !.strong = @ - 1]
                        /\ w.heap[shared].strong >= 1
                        /\ \A a \in Addr \ (Range(owned) \cup {shared}) :
                               w.heap[a] = rc_heap[a]
            /\ w.iters <= Len(chain)
            /\ list_drop(rc_heap, h.head) = w.heap

\* C12: dropping a List or an IntoIter leaves the heap the loop leaves.
C12_DropStep ==
    \A l \in rc_Handles : ListDrop(l) => rc_heap' = list_drop_walk(rc_heap, l.head).heap

\* C12: teardown of a shared list releases its own nodes and stops at the
\* first shared one.
C12_SharedDrop == [] C12_WalkInv /\ [][C12_DropStep]_vars

\* after a drop, a list of two nodes of its own followed by a node that
\* another list shares
C12_Witness ==
    /\ rc_op = "drop"
    /\ \E h \in rc_Handles :
           LET w == list_drop_walk(rc_heap, h.head)
           IN  Len(w.freed) >= 2 /\ w.stop # None

\* C18: when the program holds no List and no IntoIter, no node is allocated.
C18_AllDropped == rc_Count = 0 => rc_Live = {}

\* C18: a node is released only when it has one holder, its share count is 1,
\* and that holder goes in the same step: a List or IntoIter that is dropped
\* or advanced, or a node released in the same step; a cell that holds no
\* node is not released again; a node that stays has a holder.
C18_ReleaseStep ==
    /\ \A a \in rc_Live : a \notin rc_Live' =>
           /\ rc_heap[a].strong = 1
           /\ rc_Heads(a) + rc_Preds(a) = 1
           /\ \A b \in rc_Live : rc_heap[b].next = Some(a) => b \notin rc_Live'
           /\ rc_heap'[a] = rc_NoNode
    /\ \A a \in Addr \ rc_Live : a \notin rc_Live' => rc_heap'[a] = rc_heap[a]
    /\ \A a \in rc_Live' : rc_heap'[a].strong >= 1

\* C18: reference counting alone reclaims every node, and none too early.
C18_Reclaim == [] C18_AllDropped /\ [][C18_ReleaseStep]_vars

\* every List and IntoIter has been dropped after nodes had been shared
C18_Witness ==
    /\ rc_Count = 0
    /\ rc_shared
    /\ rc_op \in {"drop", "next"}
    /\ rc_Live = {}

\* C20: while an Iter exists, the nodes it has yielded followed by the nodes
\* it has still to yield are the whole chain of the list it borrows, shared
\* nodes included, each node once.
C20_IterInv ==
    /\ st_mode = "iter" =>
           /\ st_yielded \o st_Nodes(st_next, MaxNodes + 1) = st_Chain
           /\ Cardinality(Range(st_Chain)) = Len(st_Chain)
    /\ rc_iter # None =>
           LET it == rc_iter[1]
               chain == rc_Nodes(rc_heap, it.list, MaxNodes + 1)
           IN  /\ BagIn(List(it.list), rc_lists)
               /\ it.yielded \o rc_Nodes(rc_heap, it.next, MaxNodes + 1) = chain
               /\ Cardinality(Range(chain)) = Len(chain)
               /\ Range(chain) \subseteq rc_Live

\* C20: next() of an Iter yields the borrow of the next element in head-to-tail
\* order, or the empty-signal once all were yielded; making, advancing and
\* ending an Iter changes no list, no element and no share count.
C20_IterStep ==
    /\ (st_op' = "next_ref" /\ <<st_vars, sx_vars>>' # <<st_vars, sx_vars>>) =>
           /\ IF Len(st_yielded) < Len(st_Chain)
              THEN /\ st_ret' = Some(st_List[Len(st_yielded) + 1])
                   /\ st_yielded' = Append(st_yielded, st_Chain[Len(st_yielded) + 1])
              ELSE st_ret' = None /\ st_yielded' = st_yielded
           /\ st_head' = st_head /\ st_heap' = st_heap
    /\ (st_op' \in {"iter", "end"} /\ <<st_vars, sx_vars>>' # <<st_vars, sx_vars>>) =>
           st_head' = st_head /\ st_heap' = st_heap
    /\ (rc_op' = "next_ref" /\ <<rc_vars, rx_vars>>' # <<rc_vars, rx_vars>>) =>
           LET it == rc_iter[1]
               chain == rc_Nodes(rc_heap, it.list, MaxNodes + 1)
               elems == rc_Seq(rc_heap, it.list)
           IN  /\ IF Len(it.yielded) < Len(chain)
                  THEN /\ rc_ret' = Some(elems[Len(it.yielded) + 1])
                       /\ rc_iter'[1].yielded = Append(it.yielded, chain[Len(it.yielded) + 1])
                  ELSE rc_ret' = None /\ rc_iter' = rc_iter
               /\ rc_heap' = rc_heap /\ rc_lists' = rc_lists
    /\ (rc_op' \in {"iter", "end_ref"} /\ <<rc_vars, rx_vars>>' # <<rc_vars, rx_vars>>) =>
           rc_heap' = rc_heap /\ rc_lists' = rc_lists

\* C20: iter yields the full element sequence of a stack and of a shared list.
C20_Iter == [] C20_IterInv /\ [][C20_IterStep]_vars

\* an Iter on a shared list has reached the end after going through a node
\* that another list shares
C20_Witness ==
    /\ rc_iter # None
    /\ rc_op = "next_ref"
    /\ rc_ret = None
    /\ Len(rc_iter[1].yielded) >= 2
    /\ \E i \in 1..Len(rc_iter[1].yielded) : rc_heap[rc_iter[1].yielded[i]].strong >= 2

====
